---- MODULE Spec2Model ----
(***************************************************************************)
(* Model of pkg/commands/service/export.go: `kn service export`.           *)
(*                                                                         *)
(* Go strings that the code compares or parses (revision names, the        *)
(* generation label) are sequences of one-character strings, ordered by    *)
(* their byte codes.  Go maps and slices that the code shares between      *)
(* objects are cells of a heap, and objects hold references to the cells.  *)
(***************************************************************************)
EXTENDS Integers, Sequences, FiniteSets, TLC

VARIABLES
    \* ---- sortRevisions on its own
    sortIn,         \* the revision list handed to sortRevisions
    sortOut,        \* the list after sortRevisions
    sortPc,         \* "input" | "sorted"
    \* ---- the strip functions on their own
    stripIn,        \* a metadata map (annotations or labels)
    stripFn,        \* the strip function applied, "none" before
    stripOnce,      \* the map after one application
    stripTwice,     \* the map after two applications
    \* ---- one export request
    service,        \* the service fetched by client.GetService
    pc,             \* "start" | "built" | "failed" | "done"
    mode,           \* --mode
    withRevisions,  \* --with-revisions
    listResponse,   \* what client.ListRevisions returned
    listQueries,    \* number of ListRevisions calls issued
    revisionList,   \* revisionList.Items after sortRevisions
    revsMap,        \* the routed-revision map
    heap,           \* maps and slices of service.DeepCopy() and of the revision copies
    artifact,       \* the object handed to the printer (holds references)
    err,            \* the error exportService returns
    output          \* what printer.PrintObj rendered

sortVars == <<sortIn, sortOut, sortPc>>
stripVars == <<stripIn, stripFn, stripOnce, stripTwice>>
exportVars == <<service, pc, mode, withRevisions, listResponse, listQueries,
                revisionList, revsMap, heap, artifact, err, output>>
vars == <<sortVars, stripVars, exportVars>>

-----------------------------------------------------------------------------
(* Bounds *)

MaxSortLen == 3
MaxRevs == 2
MaxTraffic == 2

-----------------------------------------------------------------------------
(* Go strings *)

Chars == {"+", "-", "0", "1", "2", "a", "b", "c", "x"}

\* byte value of a character
Code ==
    [c \in Chars |->
        CASE c = "+" -> 43 [] c = "-" -> 45
          [] c = "0" -> 48 [] c = "1" -> 49 [] c = "2" -> 50
          [] c = "a" -> 97 [] c = "b" -> 98 [] c = "c" -> 99
          [] c = "x" -> 120]

\* s < t for Go strings: bytewise lexical order, a proper prefix is smaller
StrLess(s, t) ==
    \E i \in 1..Len(t) :
        /\ i - 1 <= Len(s)
        /\ \A j \in 1..(i - 1) : s[j] = t[j]
        /\ (i > Len(s) \/ Code[s[i]] < Code[t[i]])

\* s > t for Go strings
StrGreater(s, t) == StrLess(t, s)

IsDigit(c) == Code[c] >= Code["0"] /\ Code[c] <= Code["0"] + 9

RECURSIVE DigitsValue(_)
DigitsValue(ds) ==
    IF ds = <<>> THEN 0
    ELSE 10 * DigitsValue(SubSeq(ds, 1, Len(ds) - 1)) + (Code[ds[Len(ds)]] - Code["0"])

\* strconv.Atoi: an optional sign, then one or more decimal digits;
\* anything else is a syntax error (and the value 0)
Atoi(s) ==
    LET signed == Len(s) > 0 /\ s[1] \in {"+", "-"}
        digits == IF signed THEN Tail(s) ELSE s
    IN  IF Len(digits) = 0 \/ \E i \in 1..Len(digits) : ~IsDigit(digits[i])
        THEN [err |-> TRUE, n |-> 0]
        ELSE [err |-> FALSE,
              n |-> IF signed /\ s[1] = "-" THEN 0 - DigitsValue(digits)
                    ELSE DigitsValue(digits)]

-----------------------------------------------------------------------------
(* Go maps: a function from the keys present to their values *)

EmptyMap == <<>>

\* m[k] of a map[string]string: "" for a missing key
MapGet(m, k) == IF k \in DOMAIN m THEN m[k] ELSE <<>>

\* m[k] of a map[string]bool: false for a missing key
MapGetBool(m, k) == k \in DOMAIN m /\ m[k]

\* delete(m, k): a missing key is a no-op
MapDelete(m, k) == [x \in DOMAIN m \ {k} |-> m[x]]

\* m[k] = v
MapSet(m, k, v) == [x \in DOMAIN m \cup {k} |-> IF x = k THEN v ELSE m[x]]

-----------------------------------------------------------------------------
(* The deny-lists *)

IgnoredServiceAnnotations ==
    << "serving.knative.dev/creator",
       "serving.knative.dev/lastModifier",
       "kubectl.kubernetes.io/last-applied-configuration" >>

IgnoredRevisionAnnotations ==
    << "serving.knative.dev/lastPinned",
       "serving.knative.dev/creator",
       "serving.knative.dev/routingStateModified",
       "client.knative.dev/updateTimestamp" >>

IgnoredServiceLabels ==
    << "serving.knative.dev/configurationUID",
       "serving.knative.dev/serviceUID" >>

IgnoredRevisionLabels ==
    << "serving.knative.dev/configurationUID",
       "serving.knative.dev/serviceUID" >>

ConfigurationGenerationLabelKey == "serving.knative.dev/configurationGeneration"

ModeReplay == "replay"
ModeExport == "export"

\* a plausible slip: the loop stops before the last key of the deny-list
RECURSIVE DeleteEachButLast(_, _)
DeleteEachButLast(m, keys) ==
    IF Len(keys) <= 1 THEN m
    ELSE DeleteEachButLast(MapDelete(m, Head(keys)), Tail(keys))

\* for _, key := range keys { delete(m, key) }
RECURSIVE DeleteEach(_, _)
DeleteEach(m, keys) ==
    IF keys = <<>> THEN m
    ELSE DeleteEach(MapDelete(m, Head(keys)), Tail(keys))

stripIgnoredAnnotationsFromService(annotations) ==
    DeleteEach(annotations, IgnoredServiceAnnotations)

stripIgnoredAnnotationsFromRevision(annotations) ==
    DeleteEach(annotations, IgnoredRevisionAnnotations)

stripIgnoredAnnotationsFromRevisionTemplate(annotations) ==
    DeleteEach(annotations, IgnoredRevisionAnnotations)

stripIgnoredLabelsFromService(labels) ==
    DeleteEach(labels, IgnoredServiceLabels)

stripIgnoredLabelsFromRevision(labels) ==
    DeleteEach(labels, IgnoredRevisionLabels)

stripIgnoredLabelsFromRevisionTemplate(labels) ==
    DeleteEach(labels, IgnoredRevisionLabels)

-----------------------------------------------------------------------------
(* sortRevisions *)

\* a.Labels[serving.ConfigurationGenerationLabelKey]
GenerationLabel(rev) == MapGet(rev.labels, ConfigurationGenerationLabelKey)

\* a plausible slip: the generations compared as strings
LessByGenerationString(a, b) ==
    LET agen == Atoi(GenerationLabel(a))
        bgen == Atoi(GenerationLabel(b))
    IN  IF agen.err THEN StrGreater(a.name, b.name)
        ELSE IF bgen.err THEN StrGreater(a.name, b.name)
        ELSE IF agen.n # bgen.n THEN StrLess(GenerationLabel(a), GenerationLabel(b))
        ELSE StrGreater(a.name, b.name)

\* the less function: a = Items[i], b = Items[j]
revisionListSortFunc(a, b) ==
    LET agen == Atoi(GenerationLabel(a))
        bgen == Atoi(GenerationLabel(b))
    IN  IF agen.err THEN StrGreater(a.name, b.name)
        ELSE IF bgen.err THEN StrGreater(a.name, b.name)
        ELSE IF agen.n # bgen.n THEN agen.n < bgen.n
        ELSE StrGreater(a.name, b.name)

Swap(items, i, j) == [items EXCEPT ![i] = items[j], ![j] = items[i]]

\* sort.SliceStable's insertion sort, inner loop:
\* for j := i; j > a && less(j, j-1); j-- { swap(j, j-1) }
RECURSIVE InsertDown(_, _)
InsertDown(items, j) ==
    IF j > 1 /\ revisionListSortFunc(items[j], items[j - 1])
    THEN InsertDown(Swap(items, j, j - 1), j - 1)
    ELSE items

\* outer loop: for i := a + 1; i < b; i++
RECURSIVE InsertionSortFrom(_, _)
InsertionSortFrom(items, i) ==
    IF i > Len(items) THEN items
    ELSE InsertionSortFrom(InsertDown(items, i), i + 1)

\* sort.SliceStable(revisionList.Items, less): lists of at most 20 items
\* (one block of the stable sort) are sorted by insertion sort alone
sortRevisions(items) == InsertionSortFrom(items, 2)

-----------------------------------------------------------------------------
(* Specification SpecSort: sortRevisions applied to a revision list *)

SortNames == {<<"a">>, <<"a", "b">>, <<"b">>, <<"c">>}

\* generation labels: missing, "1", "2", "10", "x"
SortGenLabels == {<<>>, <<"1">>, <<"2">>, <<"1", "0">>, <<"x">>}

GenLabelMap(gen) ==
    IF gen = <<>> THEN EmptyMap ELSE (ConfigurationGenerationLabelKey :> gen)

SortRevisionInputs ==
    {[name |-> n, labels |-> GenLabelMap(g)] : n \in SortNames, g \in SortGenLabels}

\* revision names are unique within a namespace
DistinctNames(s) == \A i, j \in 1..Len(s) : i # j => s[i].name # s[j].name

SortLists ==
    UNION {{s \in [1..n -> SortRevisionInputs] : DistinctNames(s)} : n \in 0..MaxSortLen}

IdleSort == sortIn = <<>> /\ sortOut = <<>> /\ sortPc = "idle"

IdleStrip ==
    stripIn = EmptyMap /\ stripFn = "idle" /\ stripOnce = EmptyMap /\ stripTwice = EmptyMap

NoService == [name |-> "none"]
NoResponse == [error |-> [msg |-> "", arg |-> ""], asked |-> FALSE, items |-> <<>>]
NoError == [msg |-> "", arg |-> ""]
NoOutput == [kind |-> "none"]

IdleExport ==
    /\ service = NoService /\ pc = "idle" /\ mode = "" /\ withRevisions = FALSE
    /\ listResponse = NoResponse /\ listQueries = 0 /\ revisionList = <<>>
    /\ revsMap = EmptyMap /\ heap = <<>> /\ artifact = NoOutput
    /\ err = NoError /\ output = NoOutput

SortInit ==
    /\ sortIn \in SortLists
    /\ sortOut = <<>>
    /\ sortPc = "input"
    /\ IdleStrip
    /\ IdleExport

SortRevisionsStep ==
    /\ sortPc = "input"
    /\ sortOut' = sortRevisions(sortIn)
    /\ sortPc' = "sorted"
    /\ UNCHANGED <<sortIn, stripVars, exportVars>>

SortNext == SortRevisionsStep

SpecSort == SortInit /\ [][SortNext]_vars

ValidGeneration(rev) == ~Atoi(GenerationLabel(rev)).err
Generation(rev) == Atoi(GenerationLabel(rev)).n

\* both generations parse and differ
DistinctGenerations(a, b) ==
    ValidGeneration(a) /\ ValidGeneration(b) /\ Generation(a) # Generation(b)

\* the pair is ordered by name: equal valid generations, or a label that does not parse
NameFallbackPair(a, b) == a.name # b.name /\ ~DistinctGenerations(a, b)

\* C1: after sortRevisions, of any two revisions with valid distinct generations
\* the one with the smaller generation comes first, whatever else the list holds.
C1_SmallerGenerationFirst ==
    sortPc = "sorted" =>
        \A i, j \in 1..Len(sortOut) :
            (DistinctGenerations(sortOut[i], sortOut[j])
                /\ Generation(sortOut[i]) < Generation(sortOut[j])) => i < j

UniformLabels(s) ==
    \/ \A i \in 1..Len(s) : ValidGeneration(s[i])
    \/ \A i \in 1..Len(s) : ~ValidGeneration(s[i])

-----------------------------------------------------------------------------
(* Specification SpecStrip: each strip function applied to a metadata map *)

Range(seq) == {seq[i] : i \in 1..Len(seq)}

\* every deny-listed key, and one key that is on no list
StripKeys ==
    Range(IgnoredServiceAnnotations) \cup Range(IgnoredRevisionAnnotations)
        \cup Range(IgnoredServiceLabels) \cup Range(IgnoredRevisionLabels)
        \cup {"app"}

StripValues == {"v1", "v2"}

StripMaps == UNION {[D -> StripValues] : D \in SUBSET StripKeys}

StripInit ==
    /\ stripIn \in StripMaps
    /\ stripFn = "none"
    /\ stripOnce = EmptyMap
    /\ stripTwice = EmptyMap
    /\ IdleSort
    /\ IdleExport

StripIgnoredAnnotationsFromService ==
    /\ stripFn = "none"
    /\ stripFn' = "stripIgnoredAnnotationsFromService"
    /\ stripOnce' = stripIgnoredAnnotationsFromService(stripIn)
    /\ stripTwice' =
        stripIgnoredAnnotationsFromService(stripIgnoredAnnotationsFromService(stripIn))
    /\ UNCHANGED <<stripIn, sortVars, exportVars>>

StripIgnoredAnnotationsFromRevision ==
    /\ stripFn = "none"
    /\ stripFn' = "stripIgnoredAnnotationsFromRevision"
    /\ stripOnce' = stripIgnoredAnnotationsFromRevision(stripIn)
    /\ stripTwice' =
        stripIgnoredAnnotationsFromRevision(stripIgnoredAnnotationsFromRevision(stripIn))
    /\ UNCHANGED <<stripIn, sortVars, exportVars>>

StripIgnoredAnnotationsFromRevisionTemplate ==
    /\ stripFn = "none"
    /\ stripFn' = "stripIgnoredAnnotationsFromRevisionTemplate"
    /\ stripOnce' = stripIgnoredAnnotationsFromRevisionTemplate(stripIn)
    /\ stripTwice' =
        stripIgnoredAnnotationsFromRevisionTemplate(
            stripIgnoredAnnotationsFromRevisionTemplate(stripIn))
    /\ UNCHANGED <<stripIn, sortVars, exportVars>>

StripIgnoredLabelsFromService ==
    /\ stripFn = "none"
    /\ stripFn' = "stripIgnoredLabelsFromService"
    /\ stripOnce' = stripIgnoredLabelsFromService(stripIn)
    /\ stripTwice' = stripIgnoredLabelsFromService(stripIgnoredLabelsFromService(stripIn))
    /\ UNCHANGED <<stripIn, sortVars, exportVars>>

StripIgnoredLabelsFromRevision ==
    /\ stripFn = "none"
    /\ stripFn' = "stripIgnoredLabelsFromRevision"
    /\ stripOnce' = stripIgnoredLabelsFromRevision(stripIn)
    /\ stripTwice' = stripIgnoredLabelsFromRevision(stripIgnoredLabelsFromRevision(stripIn))
    /\ UNCHANGED <<stripIn, sortVars, exportVars>>

StripIgnoredLabelsFromRevisionTemplate ==
    /\ stripFn = "none"
    /\ stripFn' = "stripIgnoredLabelsFromRevisionTemplate"
    /\ stripOnce' = stripIgnoredLabelsFromRevisionTemplate(stripIn)
    /\ stripTwice' =
        stripIgnoredLabelsFromRevisionTemplate(
            stripIgnoredLabelsFromRevisionTemplate(stripIn))
    /\ UNCHANGED <<stripIn, sortVars, exportVars>>

StripNext ==
    \/ StripIgnoredAnnotationsFromService
    \/ StripIgnoredAnnotationsFromRevision
    \/ StripIgnoredAnnotationsFromRevisionTemplate
    \/ StripIgnoredLabelsFromService
    \/ StripIgnoredLabelsFromRevision
    \/ StripIgnoredLabelsFromRevisionTemplate

SpecStrip == StripInit /\ [][StripNext]_vars

\* the keys each strip function is documented to remove
DenyListOf(fn) ==
    CASE fn = "stripIgnoredAnnotationsFromService" ->
            {"serving.knative.dev/creator", "serving.knative.dev/lastModifier",
             "kubectl.kubernetes.io/last-applied-configuration"}
      [] fn \in {"stripIgnoredAnnotationsFromRevision",
                 "stripIgnoredAnnotationsFromRevisionTemplate"} ->
            {"serving.knative.dev/lastPinned", "serving.knative.dev/creator",
             "serving.knative.dev/routingStateModified",
             "client.knative.dev/updateTimestamp"}
      [] OTHER ->
            {"serving.knative.dev/configurationUID", "serving.knative.dev/serviceUID"}

\* C8: each strip function is idempotent, and one application removes exactly
\* the deny-listed keys that are present, leaving every other key and value as is.
C8_StripIdempotentExact ==
    stripFn # "none" /\ stripFn # "idle" =>
        /\ stripTwice = stripOnce
        /\ DOMAIN stripOnce = DOMAIN stripIn \ DenyListOf(stripFn)
        /\ \A k \in DOMAIN stripOnce : stripOnce[k] = stripIn[k]

\* C8 witness: a strip of revision annotations that removed a deny-listed key and
\* kept other keys, among them one that only the service deny-list names.
C8_Witness ==
    /\ stripFn = "stripIgnoredAnnotationsFromRevision"
    /\ "serving.knative.dev/routingStateModified" \in DOMAIN stripIn
    /\ "serving.knative.dev/routingStateModified" \notin DOMAIN stripOnce
    /\ "serving.knative.dev/lastModifier" \in DOMAIN stripOnce
    /\ "app" \in DOMAIN stripOnce

-----------------------------------------------------------------------------
(* The heap: the maps and slices that objects share *)

NilRef == <<"nil", <<>>>>
SvcLabelsRef == <<"svc.labels", <<>>>>
SvcAnnotationsRef == <<"svc.annotations", <<>>>>
TplLabelsRef == <<"tpl.labels", <<>>>>
TplAnnotationsRef == <<"tpl.annotations", <<>>>>
TrafficRef == <<"svc.traffic", <<>>>>
RevLabelsRef(name) == <<"rev.labels", name>>
RevAnnotationsRef(name) == <<"rev.annotations", name>>

\* the map or slice a reference points to; a nil map or slice reads as empty
Deref(h, ref) == IF ref = NilRef THEN <<>> ELSE h[ref]

\* a new cell
Alloc(h, ref, value) == [r \in DOMAIN h \cup {ref} |-> IF r = ref THEN value ELSE h[r]]

\* service.DeepCopy(): every map and slice of the copy is a cell of its own
DeepCopyService(svc) ==
    [obj |-> [apiVersion |-> svc.apiVersion, kind |-> svc.kind, name |-> svc.name,
              labels |-> SvcLabelsRef, annotations |-> SvcAnnotationsRef,
              template |-> [name |-> svc.template.name, labels |-> TplLabelsRef,
                            annotations |-> TplAnnotationsRef,
                            spec |-> svc.template.spec],
              traffic |-> TrafficRef,
              latestReadyRevisionName |-> svc.latestReadyRevisionName],
     heap |-> [r \in {SvcLabelsRef, SvcAnnotationsRef, TplLabelsRef,
                      TplAnnotationsRef, TrafficRef} |->
                 CASE r = SvcLabelsRef -> svc.labels
                   [] r = SvcAnnotationsRef -> svc.annotations
                   [] r = TplLabelsRef -> svc.template.labels
                   [] r = TplAnnotationsRef -> svc.template.annotations
                   [] r = TrafficRef -> svc.traffic]]

\* revision.DeepCopy()
DeepCopyRevision(h, rev) ==
    [obj |-> [apiVersion |-> rev.apiVersion, kind |-> rev.kind, name |-> rev.name,
              labels |-> RevLabelsRef(rev.name),
              annotations |-> RevAnnotationsRef(rev.name),
              spec |-> rev.spec],
     heap |-> Alloc(Alloc(h, RevLabelsRef(rev.name), rev.labels),
                    RevAnnotationsRef(rev.name), rev.annotations)]

-----------------------------------------------------------------------------
(* The builders *)

\* a plausible slip: every target that carries the flag is rewritten, also a false one
MaterializeAnyFlag(trafficList, latestReady) ==
    [i \in 1..Len(trafficList) |->
        IF trafficList[i].latestRevision # "nil"
        THEN [trafficList[i] EXCEPT !.revisionName = latestReady]
        ELSE trafficList[i]]

\* the loop over exportedSvc.Spec.RouteSpec.Traffic: LatestRevision is a *bool
MaterializeLatest(trafficList, latestReady) ==
    [i \in 1..Len(trafficList) |->
        IF trafficList[i].latestRevision # "nil" /\ trafficList[i].latestRevision = "true"
        THEN [trafficList[i] EXCEPT !.revisionName = latestReady]
        ELSE trafficList[i]]

\* exportLatestService: the new service shares the maps of latestSvc, and with
\* routes the backing array of its traffic slice; the strips act on those cells
exportLatestService(h, latestSvc, withRoutes) ==
    LET h1 == IF withRoutes
              THEN [h EXCEPT ![latestSvc.traffic] =
                        MaterializeLatest(@, latestSvc.latestReadyRevisionName)]
              ELSE h
        h2 == [h1 EXCEPT ![latestSvc.annotations] = stripIgnoredAnnotationsFromService(@)]
        h3 == [h2 EXCEPT ![latestSvc.labels] = stripIgnoredLabelsFromService(@)]
        h4 == [h3 EXCEPT ![latestSvc.template.annotations] =
                        stripIgnoredAnnotationsFromRevisionTemplate(@)]
        h5 == [h4 EXCEPT ![latestSvc.template.labels] =
                        stripIgnoredLabelsFromRevisionTemplate(@)]
    IN  [svc |-> [apiVersion |-> latestSvc.apiVersion, kind |-> latestSvc.kind,
                  name |-> latestSvc.name,
                  labels |-> latestSvc.labels,
                  annotations |-> latestSvc.annotations,
                  template |-> [name |-> latestSvc.template.name,
                                labels |-> latestSvc.template.labels,
                                annotations |-> latestSvc.template.annotations,
                                spec |-> latestSvc.template.spec],
                  traffic |-> IF withRoutes THEN latestSvc.traffic ELSE NilRef],
         heap |-> h5]

\* exportRevision, on a copy of the revision
exportRevision(h, revision) ==
    LET h1 == [h EXCEPT ![revision.annotations] = stripIgnoredAnnotationsFromRevision(@)]
        h2 == [h1 EXCEPT ![revision.labels] = stripIgnoredLabelsFromRevision(@)]
    IN  [rev |-> [apiVersion |-> revision.apiVersion, kind |-> revision.kind,
                  name |-> revision.name,
                  labels |-> revision.labels,
                  annotations |-> revision.annotations,
                  spec |-> revision.spec],
         heap |-> h2]

\* a variant in which the new service gets maps of its own instead of sharing
constructServiceFromRevisionOwnMaps(h, latestSvc, revision) ==
    LET h1 == [h EXCEPT ![revision.annotations] = stripIgnoredAnnotationsFromRevision(@)]
        h2 == Alloc(Alloc(h1, <<"own.labels", revision.name>>, Deref(h1, latestSvc.labels)),
                    <<"own.annotations", revision.name>>,
                    stripIgnoredAnnotationsFromService(Deref(h1, latestSvc.annotations)))
    IN  [svc |-> [apiVersion |-> latestSvc.apiVersion, kind |-> latestSvc.kind,
                  name |-> latestSvc.name,
                  labels |-> <<"own.labels", revision.name>>,
                  annotations |-> <<"own.annotations", revision.name>>,
                  template |-> [name |-> revision.name,
                                labels |-> latestSvc.template.labels,
                                annotations |-> revision.annotations,
                                spec |-> revision.spec],
                  traffic |-> NilRef],
         heap |-> h2]

\* a plausible slip: the template keeps the live template's spec
constructServiceFromRevisionLiveSpec(h, latestSvc, revision) ==
    LET h1 == [h EXCEPT ![revision.annotations] = stripIgnoredAnnotationsFromRevision(@)]
        h2 == [h1 EXCEPT ![latestSvc.annotations] = stripIgnoredAnnotationsFromService(@)]
    IN  [svc |-> [apiVersion |-> latestSvc.apiVersion, kind |-> latestSvc.kind,
                  name |-> latestSvc.name,
                  labels |-> latestSvc.labels,
                  annotations |-> latestSvc.annotations,
                  template |-> [name |-> revision.name,
                                labels |-> latestSvc.template.labels,
                                annotations |-> revision.annotations,
                                spec |-> latestSvc.template.spec],
                  traffic |-> NilRef],
         heap |-> h2]

\* constructServiceFromRevision, on a copy of the revision: the new service
\* shares the label and annotation maps of latestSvc
constructServiceFromRevision(h, latestSvc, revision) ==
    LET h1 == [h EXCEPT ![revision.annotations] = stripIgnoredAnnotationsFromRevision(@)]
        h2 == [h1 EXCEPT ![latestSvc.annotations] = stripIgnoredAnnotationsFromService(@)]
    IN  [svc |-> [apiVersion |-> latestSvc.apiVersion, kind |-> latestSvc.kind,
                  name |-> latestSvc.name,
                  labels |-> latestSvc.labels,
                  annotations |-> latestSvc.annotations,
                  template |-> [name |-> revision.name,
                                labels |-> latestSvc.template.labels,
                                annotations |-> revision.annotations,
                                spec |-> revision.spec],
                  traffic |-> NilRef],
         heap |-> h2]

-----------------------------------------------------------------------------
(* The revision selector *)

\* a plausible slip: the check for an empty revision name is left out
RoutedFromAnyName(revs, trafficList) ==
    [n \in DOMAIN revs \cup {trafficList[i].revisionName : i \in 1..Len(trafficList)}
        |-> TRUE]

\* for _, traffic := range trafficList { if traffic.RevisionName != "" { ... } }
RECURSIVE RoutedFrom(_, _)
RoutedFrom(revs, trafficList) ==
    IF trafficList = <<>> THEN revs
    ELSE RoutedFrom(IF Head(trafficList).revisionName # <<>>
                    THEN MapSet(revs, Head(trafficList).revisionName, TRUE)
                    ELSE revs,
                    Tail(trafficList))

getRoutedRevisions(h, latestSvc) == RoutedFrom(EmptyMap, Deref(h, latestSvc.traffic))

NoRevisionsFound(name) == [msg |-> "no revisions found for the service %s", arg |-> name]

\* a plausible slip: the check for an empty list is left out
getRevisionsToExportNoEmptyCheck(h, latestSvc, response) ==
    LET routed == getRoutedRevisions(h, latestSvc)
    IN  IF response.error # NoError
        THEN [err |-> response.error, items |-> <<>>, revsMap |-> EmptyMap]
        ELSE [err |-> NoError, items |-> sortRevisions(response.items), revsMap |-> routed]

\* getRevisionsToExport; response is what client.ListRevisions returns
getRevisionsToExport(h, latestSvc, response) ==
    LET routed == getRoutedRevisions(h, latestSvc)
    IN  IF response.error # NoError
        THEN [err |-> response.error, items |-> <<>>, revsMap |-> EmptyMap]
        ELSE IF Len(response.items) = 0
        THEN [err |-> NoRevisionsFound(latestSvc.name), items |-> <<>>,
              revsMap |-> EmptyMap]
        ELSE [err |-> NoError, items |-> sortRevisions(response.items), revsMap |-> routed]

\* a plausible slip: the comparison with the live template's name is left out
ActiveOnly(revs, latestSvc, revision) == MapGetBool(revs, revision.name)

\* the filter of both loops: routed, and not the live template's revision
ActiveNotLatest(revs, latestSvc, revision) ==
    MapGetBool(revs, revision.name) /\ revision.name # latestSvc.template.name

\* a plausible slip: one revision is enough for the routes
AtLeastOneRevision(count) == count > 0

\* len(revisionList.Items) > 1, revisionHistoryCount > 1
MoreThanOneRevision(count) == count > 1

-----------------------------------------------------------------------------
(* The export assemblers *)

\* the loop of exportServiceListForReplay over the sorted revisions
RECURSIVE ReplayItems(_, _, _, _)
ReplayItems(h, latestSvc, revs, list) ==
    IF list = <<>> THEN [items |-> <<>>, heap |-> h]
    ELSE IF ActiveNotLatest(revs, latestSvc, Head(list))
    THEN LET cp == DeepCopyRevision(h, Head(list))
             c == constructServiceFromRevision(cp.heap, latestSvc, cp.obj)
             rest == ReplayItems(c.heap, latestSvc, revs, Tail(list))
         IN  [items |-> <<c.svc>> \o rest.items, heap |-> rest.heap]
    ELSE ReplayItems(h, latestSvc, revs, Tail(list))

\* the loop of exportForKNImport over the sorted revisions
RECURSIVE ImportItems(_, _, _, _)
ImportItems(h, latestSvc, revs, list) ==
    IF list = <<>> THEN [items |-> <<>>, heap |-> h]
    ELSE IF ActiveNotLatest(revs, latestSvc, Head(list))
    THEN LET cp == DeepCopyRevision(h, Head(list))
             e == exportRevision(cp.heap, cp.obj)
             rest == ImportItems(e.heap, latestSvc, revs, Tail(list))
         IN  [items |-> <<e.rev>> \o rest.items, heap |-> rest.heap]
    ELSE ImportItems(h, latestSvc, revs, Tail(list))

\* exportServiceListForReplay: without --with-revisions the latest service itself,
\* otherwise a v1 List of the reconstructed services and the latest service
exportServiceListForReplay(h, latestSvc, withRevs, response) ==
    IF ~withRevs
    THEN LET l == exportLatestService(h, latestSvc, FALSE)
         IN  [err |-> NoError, artifact |-> l.svc, heap |-> l.heap,
              items |-> <<>>, revsMap |-> EmptyMap, queries |-> 0]
    ELSE LET g == getRevisionsToExport(h, latestSvc, response)
         IN  IF g.err # NoError
             THEN [err |-> g.err, artifact |-> NoOutput, heap |-> h,
                   items |-> <<>>, revsMap |-> EmptyMap, queries |-> 1]
             ELSE LET hist == ReplayItems(h, latestSvc, g.revsMap, g.items)
                      l == exportLatestService(hist.heap, latestSvc,
                                               MoreThanOneRevision(Len(g.items)))
                  IN  [err |-> NoError,
                       artifact |-> [apiVersion |-> "v1", kind |-> "List",
                                     items |-> hist.items \o <<l.svc>>],
                       heap |-> l.heap,
                       items |-> g.items, revsMap |-> g.revsMap, queries |-> 1]

\* exportForKNImport: the Export object of the latest service and the revisions
exportForKNImport(h, latestSvc, withRevs, response) ==
    LET g == IF withRevs THEN getRevisionsToExport(h, latestSvc, response)
             ELSE [err |-> NoError, items |-> <<>>, revsMap |-> EmptyMap]
        queries == IF withRevs THEN 1 ELSE 0
    IN  IF g.err # NoError
        THEN [err |-> g.err, artifact |-> NoOutput, heap |-> h,
              items |-> <<>>, revsMap |-> EmptyMap, queries |-> queries]
        ELSE LET hist == ImportItems(h, latestSvc, g.revsMap, g.items)
                 revisionHistoryCount == Len(g.items)
                 l == exportLatestService(hist.heap, latestSvc,
                                          MoreThanOneRevision(revisionHistoryCount))
             IN  [err |-> NoError,
                  artifact |-> [apiVersion |-> "client.knative.dev/v1alpha1",
                                kind |-> "Export",
                                service |-> l.svc,
                                revisions |-> hist.items],
                  heap |-> l.heap,
                  items |-> g.items, revsMap |-> g.revsMap, queries |-> queries]

\* what the printer writes for a service: the cells read when it prints
RenderService(h, s) ==
    [apiVersion |-> s.apiVersion, kind |-> s.kind, name |-> s.name,
     labels |-> Deref(h, s.labels), annotations |-> Deref(h, s.annotations),
     template |-> [name |-> s.template.name,
                   labels |-> Deref(h, s.template.labels),
                   annotations |-> Deref(h, s.template.annotations),
                   spec |-> s.template.spec],
     traffic |-> Deref(h, s.traffic)]

RenderRevision(h, r) ==
    [apiVersion |-> r.apiVersion, kind |-> r.kind, name |-> r.name,
     labels |-> Deref(h, r.labels), annotations |-> Deref(h, r.annotations),
     spec |-> r.spec]

\* printer.PrintObj(obj, out)
Render(h, obj) ==
    CASE obj.kind = "List" ->
            [apiVersion |-> obj.apiVersion, kind |-> obj.kind,
             items |-> [i \in 1..Len(obj.items) |-> RenderService(h, obj.items[i])]]
      [] obj.kind = "Export" ->
            [apiVersion |-> obj.apiVersion, kind |-> obj.kind,
             service |-> RenderService(h, obj.service),
             revisions |-> [i \in 1..Len(obj.revisions) |->
                                RenderRevision(h, obj.revisions[i])]]
      [] OTHER -> RenderService(h, obj)

-----------------------------------------------------------------------------
(* Specification Spec: one export request *)

\* revision names in traffic targets; <<>> is the empty name
TrafficNames == {<<>>, <<"a">>, <<"b">>}

\* LatestRevision *bool
LatestRevisionFlags == {"nil", "true", "false"}

TrafficTargets == [revisionName : TrafficNames, latestRevision : LatestRevisionFlags]

TrafficLists == UNION {[1..n -> TrafficTargets] : n \in 0..MaxTraffic}

ExportRevNames == {<<"a">>, <<"b">>, <<"c">>}

ExportGenLabels == {<<"1">>, <<"2">>}

ExportRevision(n, g) ==
    [apiVersion |-> "serving.knative.dev/v1", kind |-> "Revision", name |-> n,
     labels |-> (ConfigurationGenerationLabelKey :> g)
                    @@ ("serving.knative.dev/serviceUID" :> "uid-1"),
     annotations |-> ("serving.knative.dev/routingStateModified" :> "t0")
                    @@ ("serving.knative.dev/creator" :> "alice")
                    @@ ("client.knative.dev/user-image" :> "img"),
     spec |-> [image |-> n]]

ExportRevisionInputs == {ExportRevision(n, g) : n \in ExportRevNames, g \in ExportGenLabels}

ExportLists ==
    UNION {{s \in [1..n -> ExportRevisionInputs] : DistinctNames(s)} : n \in 0..MaxRevs}

\* errors of the serving client, which the code returns as they are
UpstreamErrors == {[msg |-> "revisions.serving.knative.dev is forbidden", arg |-> ""]}

ListResponses ==
    {[error |-> e, asked |-> TRUE, items |-> <<>>] : e \in UpstreamErrors}
        \cup {[error |-> NoError, asked |-> TRUE, items |-> l] : l \in ExportLists}

\* the metadata of the fetched service: none, or with server-managed keys
ServiceMetaInputs ==
    { [labels |-> EmptyMap, annotations |-> EmptyMap,
       tplLabels |-> EmptyMap, tplAnnotations |-> EmptyMap],
      [labels |-> ("serving.knative.dev/serviceUID" :> "uid-1") @@ ("app" :> "foo"),
       annotations |-> ("serving.knative.dev/creator" :> "alice")
                    @@ ("serving.knative.dev/lastModifier" :> "bob")
                    @@ ("note" :> "n1"),
       tplLabels |-> ("serving.knative.dev/configurationUID" :> "uid-2")
                    @@ ("tier" :> "web"),
       tplAnnotations |-> ("client.knative.dev/updateTimestamp" :> "t1")
                    @@ ("client.knative.dev/user-image" :> "img")] }

\* the live template's name and the latest ready revision: a named template whose
\* revision is ready, or a template without a name
TemplateInputs ==
    { [name |-> <<"a">>, latestReady |-> <<"a">>],
      [name |-> <<>>, latestReady |-> <<"c">>] }

Modes == {ModeReplay, ModeExport}

Services ==
    {[apiVersion |-> "serving.knative.dev/v1", kind |-> "Service", name |-> "foo",
      labels |-> m.labels, annotations |-> m.annotations,
      template |-> [name |-> t.name, labels |-> m.tplLabels,
                    annotations |-> m.tplAnnotations, spec |-> [image |-> <<"l">>]],
      traffic |-> tr,
      latestReadyRevisionName |-> t.latestReady] :
        m \in ServiceMetaInputs, t \in TemplateInputs, tr \in TrafficLists}

Init ==
    /\ service \in Services
    /\ pc = "start"
    /\ mode = ""
    /\ withRevisions = FALSE
    /\ listResponse = NoResponse
    /\ listQueries = 0
    /\ revisionList = <<>>
    /\ revsMap = EmptyMap
    /\ heap = <<>>
    /\ artifact = NoOutput
    /\ err = NoError
    /\ output = NoOutput
    /\ IdleSort
    /\ IdleStrip

\* exportService up to the printer: the flags are read, the service is copied
\* and handed to the assembler of the mode; response is what client.ListRevisions
\* returns when the assembler calls it (it is called only with --with-revisions)
ExportService ==
    /\ pc = "start"
    /\ \E m \in Modes, w \in BOOLEAN :
        \E response \in IF w THEN ListResponses ELSE {NoResponse} :
        \E cp \in {DeepCopyService(service)} :
        \E r \in {IF m = ModeReplay
                  THEN exportServiceListForReplay(cp.heap, cp.obj, w, response)
                  ELSE exportForKNImport(cp.heap, cp.obj, w, response)} :
            /\ mode' = m
            /\ withRevisions' = w
            /\ listQueries' = r.queries
            /\ listResponse' = response
            /\ revisionList' = r.items
            /\ revsMap' = r.revsMap
            /\ heap' = r.heap
            /\ artifact' = r.artifact
            /\ err' = r.err
            /\ pc' = IF r.err # NoError THEN "failed" ELSE "built"
    /\ UNCHANGED <<service, output, sortVars, stripVars>>

\* printer.PrintObj of the artifact
PrintObj ==
    /\ pc = "built"
    /\ output' = Render(heap, artifact)
    /\ pc' = "done"
    /\ UNCHANGED <<service, mode, withRevisions, listResponse, listQueries,
                   revisionList, revsMap, heap, artifact, err, sortVars, stripVars>>

Next == ExportService \/ PrintObj

Spec == Init /\ [][Next]_vars

-----------------------------------------------------------------------------
(* Properties of an export request *)

\* some traffic target of the fetched service carries the non-empty name n
ExplicitlyNamed(n) ==
    n # <<>> /\ \E i \in 1..Len(service.traffic) : service.traffic[i].revisionName = n

\* the latest-state service of a printed artifact
LatestOf(out) ==
    CASE out.kind = "List" -> out.items[Len(out.items)]
      [] out.kind = "Export" -> out.service
      [] OTHER -> out

\* the revision names of the historical section of a printed artifact
HistoricalNames(out) ==
    CASE out.kind = "List" -> [i \in 1..(Len(out.items) - 1) |-> out.items[i].template.name]
      [] out.kind = "Export" -> [i \in 1..Len(out.revisions) |-> out.revisions[i].name]
      [] OTHER -> <<>>

\* the routes are requested from the latest-state builder
RoutesRequested == withRevisions /\ Len(listResponse.items) > 1

\* C3: with history requested, in both modes, the historical section of the
\* printed artifact never holds the live template's revision, routed or not.
C3_CurrentNotInHistory ==
    (pc = "done" /\ withRevisions) =>
        \A i \in 1..Len(HistoricalNames(output)) :
            HistoricalNames(output)[i] # service.template.name

\* C3 witness: an export with history whose live template's revision is named in a
\* traffic target and listed, and whose historical section is not empty.
C3_Witness ==
    /\ pc = "done" /\ withRevisions
    /\ ExplicitlyNamed(service.template.name)
    /\ \E i \in 1..Len(revisionList) : revisionList[i].name = service.template.name
    /\ Len(HistoricalNames(output)) >= 1

C5_ErrorPrintsNothing ==
    /\ pc = "failed" => (err # NoError /\ artifact = NoOutput /\ output = NoOutput)
    /\ output # NoOutput => err = NoError
    /\ (pc # "start" /\ withRevisions
            /\ (listResponse.error # NoError \/ listResponse.items = <<>>)) =>
        /\ pc = "failed"
        /\ listQueries = 1
        /\ listResponse.error # NoError => err = listResponse.error
        /\ listResponse.error = NoError =>
                err = [msg |-> "no revisions found for the service %s",
                       arg |-> service.name]

\* C5 witness: a replay export whose list query returned no revision has failed.
C5_Witness ==
    /\ pc = "failed" /\ mode = ModeReplay /\ withRevisions
    /\ listResponse.asked /\ listResponse.error = NoError /\ listResponse.items = <<>>

\* the routed, not current revisions in the sorted order
ExpectedHistory ==
    LET Qualifies(r) == ExplicitlyNamed(r.name) /\ r.name # service.template.name
    IN  SelectSeq(revisionList, Qualifies)

\* the printed list: one service per expected revision, then the latest service
ReplayListAsExpected ==
    /\ output.kind = "List"
    /\ output.apiVersion = "v1"
    /\ Len(output.items) = Len(ExpectedHistory) + 1
    /\ \A i \in 1..Len(ExpectedHistory) :
        /\ output.items[i].kind = "Service"
        /\ output.items[i].name = service.name
        /\ output.items[i].template.name = ExpectedHistory[i].name
        /\ output.items[i].template.spec = ExpectedHistory[i].spec
    /\ LatestOf(output).kind = "Service"
    /\ LatestOf(output).name = service.name
    /\ LatestOf(output).template.name = service.template.name
    /\ LatestOf(output).template.spec = service.template.spec

\* C6 as stated: every printed replay export, with or without history, is a v1 List
\* of one service per routed non-current revision and the latest service last.
C6_ReplayAlwaysList ==
    (pc = "done" /\ mode = ModeReplay) => ReplayListAsExpected

\* C6 amended: every printed replay export with history requested is a v1 List of
\* one reconstructed service per routed non-current revision, in the sorted order,
\* and the latest service last; without history requested it is the latest service
\* itself, without traffic and in no list.
C6_ReplayListWithHistory ==
    /\ (pc = "done" /\ mode = ModeReplay /\ withRevisions) => ReplayListAsExpected
    /\ (pc = "done" /\ mode = ModeReplay /\ ~withRevisions) =>
        /\ output.kind = "Service"
        /\ output.name = service.name
        /\ output.template.name = service.template.name
        /\ output.template.spec = service.template.spec
        /\ output.traffic = <<>>

\* C6 witness: a printed replay list of two historical services and the latest
\* one, from a revision list that the sort reordered.
C6_Witness ==
    /\ pc = "done" /\ mode = ModeReplay /\ withRevisions
    /\ Len(output.items) = 3
    /\ revisionList # listResponse.items

\* C7: the latest service of the printed artifact carries the traffic of the
\* service iff history was requested and the list query returned more than one
\* revision; without history there is no traffic, no list query and, in import
\* mode, no revision.
C7_RoutesIffMoreThanOneRevision ==
    pc = "done" =>
        /\ Len(LatestOf(output).traffic) =
                IF withRevisions /\ Len(listResponse.items) > 1
                THEN Len(service.traffic) ELSE 0
        /\ \A i \in 1..Len(LatestOf(output).traffic) :
                LatestOf(output).traffic[i].latestRevision
                    = service.traffic[i].latestRevision
        /\ withRevisions => listQueries = 1
        /\ ~withRevisions =>
            /\ listQueries = 0
            /\ mode # ModeReplay => output.revisions = <<>>

\* C7 witness: two revisions were listed and none is in the historical section,
\* and the latest service carries the traffic.
C7_Witness ==
    /\ pc = "done" /\ withRevisions /\ mode # ModeReplay
    /\ Len(listResponse.items) = 2
    /\ output.revisions = <<>>
    /\ LatestOf(output).traffic # <<>>

\* C9: when the latest-state builder is called with routes, the exported traffic
\* has the length and order of the live traffic, every target with a true flag
\* names the latest-ready revision and every other target keeps its name; without
\* routes the exported traffic is empty.
C9_FlaggedTargetsMaterialized ==
    pc = "done" =>
        IF RoutesRequested
        THEN /\ Len(LatestOf(output).traffic) = Len(service.traffic)
             /\ \A i \in 1..Len(service.traffic) :
                /\ LatestOf(output).traffic[i].latestRevision
                        = service.traffic[i].latestRevision
                /\ LatestOf(output).traffic[i].revisionName =
                        IF service.traffic[i].latestRevision = "true"
                        THEN service.latestReadyRevisionName
                        ELSE service.traffic[i].revisionName
        ELSE LatestOf(output).traffic = <<>>

\* C9 witness: printed traffic in which a true-flagged target was renamed and a
\* target with a false flag kept a name other than the latest-ready one.
C9_Witness ==
    /\ pc = "done" /\ RoutesRequested
    /\ \E i, j \in 1..Len(service.traffic) :
        /\ service.traffic[i].latestRevision = "true"
        /\ service.traffic[i].revisionName # service.latestReadyRevisionName
        /\ LatestOf(output).traffic[i].revisionName = service.latestReadyRevisionName
        /\ service.traffic[j].latestRevision = "false"
        /\ service.traffic[j].revisionName # <<>>
        /\ LatestOf(output).traffic[j].revisionName # service.latestReadyRevisionName

\* C10: in a printed replay export with history all items have the same service
\* labels and annotations, free of the service deny-lists' keys.
C10_ItemsShareServiceMetadata ==
    (pc = "done" /\ mode = ModeReplay /\ withRevisions) =>
        \A i \in 1..Len(output.items) :
            /\ output.items[i].labels = LatestOf(output).labels
            /\ output.items[i].annotations = LatestOf(output).annotations
            /\ DOMAIN output.items[i].labels \cap Range(IgnoredServiceLabels) = {}
            /\ DOMAIN output.items[i].annotations
                    \cap Range(IgnoredServiceAnnotations) = {}

\* C10 witness: a printed replay list with a historical item, of a service whose
\* labels held a deny-listed key that no historical item shows.
C10_Witness ==
    /\ pc = "done" /\ mode = ModeReplay /\ withRevisions
    /\ Len(output.items) >= 2
    /\ "serving.knative.dev/serviceUID" \in DOMAIN service.labels
    /\ "serving.knative.dev/serviceUID" \notin DOMAIN output.items[1].labels
    /\ "app" \in DOMAIN output.items[1].labels

====
